---- MODULE Spec2Model ----
(***************************************************************************)
(* A model of succinct-rs: BinSearchSelect (src/select.rs), which answers  *)
(* select queries by binary search over the rank queries of a wrapped Rank *)
(* view, and the code_decode round-trip harness of the universal codes     *)
(* (src/coding/mod.rs).                                                    *)
(*                                                                         *)
(* The index type u64 is scaled down to W bits: every arithmetic result is *)
(* kept in 0 .. 2^W - 1.  An overflowing +, - panics in a build with       *)
(* overflow checks ("debug") and wraps in one without ("release");         *)
(* debug_assert! is checked in the debug build alone.                      *)
(***************************************************************************)
EXTENDS Integers, Sequences, FiniteSets

\* ------------------------------------------------------------- bounds
\* Longest vector handed to code_decode.
MaxVecLen == 2
\* Width in bits of the scaled-down index type (u64 in the source).
W == 3
\* Longest bit store with a contract-honouring rank (capped by the width).
MaxLen == 7
\* Longest rank view whose rank function is arbitrary, and its largest value.
MaxBrokenLen == 2
MaxBrokenRank == 3
\* Loop iterations followed per query (the loop of a broken view may not end).
MaxIters == 5

VARIABLES
    build,      \* "debug" (overflow checks, debug_assert!) or "release"
    pc,         \* position of the caller / of the running operation
    rk,         \* the wrapped Rank view: rk[i+1] is what its rank(i) answers
    max_rank,   \* BinSearchSelect.max_rank
    index,      \* select's argument
    rank,       \* select's local `rank` (= index + 1)
    start,      \* select's local `start`
    limit,      \* select's local `limit`
    mid,        \* select's local `mid` of the last iteration
    terms,      \* the value of every arithmetic operation of the last midpoint
    taken,      \* rows of the decision table whose condition held, last iteration
    assert_ok,  \* value of debug_assert!'s condition, last iteration
    iters,      \* loop iterations of the running query
    queries,    \* rank queries of the running query
    result,     \* what select returned: <<>> is None, <<p>> is Some(p)
    prev,       \* the query answered before: <<>> or <<index, result>>
    fault,      \* why the program panicked ("" while it has not)
    wrapped,    \* an arithmetic operation wrapped around (release build)
    oob,        \* rank was queried at an index >= bit_len
    code,       \* code_decode's type parameter Code
    vec,        \* code_decode's argument
    dv,         \* code_decode's bit queue
    vec2,       \* code_decode's decoded values
    pos,        \* number of elements of vec encoded so far
    same        \* code_decode's return value

vars == <<build, pc, rk, max_rank, index, rank, start, limit, mid, terms, taken,
          assert_ok, iters, queries, result, prev, fault, wrapped, oob,
          code, vec, dv, vec2, pos, same>>

selVars == <<rk, max_rank, index, rank, start, limit, mid, terms, taken,
             assert_ok, iters, queries, result, prev, oob>>
codeVars == <<code, vec, dv, vec2, pos, same>>

\* ------------------------------------------------------- machine integers
MaxU == 2^W - 1
Wrap(x) == x % (MaxU + 1)
Overflows(x) == x < 0 \/ x > MaxU
Min(a, b) == IF a < b THEN a ELSE b
Last(s) == s[Len(s)]

Builds == {"debug", "release"}

RECURSIVE Log2Floor(_)
Log2Floor(n) == IF n <= 1 THEN 0 ELSE 1 + Log2Floor(n \div 2)

None == <<>>
Some(p) == <<p>>

\* ------------------------------------------------------------ rank views
RECURSIVE PopCount(_, _)
PopCount(bits, n) == IF n = 0 THEN 0 ELSE PopCount(bits, n - 1) + bits[n]

\* The rank function of a bit store: rank(i) = number of set bits in [0, i].
RankOf(bits) == [i \in 1..Len(bits) |-> PopCount(bits, i)]

MaxBits == Min(MaxLen, MaxU)
BitStores == UNION {[1..n -> {0, 1}] : n \in 0..MaxBits}
ValidViews == {RankOf(b) : b \in BitStores}
BrokenViews == UNION {[1..n -> 0..MaxBrokenRank] : n \in 0..MaxBrokenLen}

bit_len == Len(rk)

\* What rank(i) of the wrapped view can do: answer <<its value>> inside the
\* store; outside, trap (Trap) or answer anything.
Trap == <<>>
RankOutcomes(i) ==
    IF i < bit_len THEN {<<rk[i + 1]>>}
    ELSE {Trap} \cup {<<v>> : v \in 0..MaxBrokenRank}

\* ---------------------------------------------------------------- select
\* start/2 + limit/2 + (start % 2 + limit % 2)/2, operation by operation.
\* Faulty variant: the direct average (start + limit) / 2.
MidTermsNaive(s, l) == <<s + l, Wrap(s + l) \div 2>>
MidTerms(s, l) ==
    LET a == s \div 2
        b == l \div 2
        c == a + b
        d == (s % 2) + (l % 2)
        e == Wrap(d) \div 2
    IN  <<a, b, c, d, e, Wrap(c) + e>>

Mid(s, l) == Wrap(Last(MidTerms(s, l)))

\* Faulty variant: the rank before mid is not looked at.
FoundMut(mid_rank, pre_mid_rank, r) == mid_rank = r
Found(mid_rank, pre_mid_rank, r) == mid_rank = r /\ pre_mid_rank = Wrap(r - 1)

\* Faulty variant: >= for >, so limit = mid - 1 also when the ranks are equal.
LeftStrictMut(pre_mid_rank, r) == pre_mid_rank >= r
LeftStrict(pre_mid_rank, r) == pre_mid_rank > r

Left(pre_mid_rank, r) == pre_mid_rank = r

Right(mid_rank, r) == mid_rank < r

LimitOnEqual(m) == m

\* Faulty variant: start advances by one position (a linear search).
StartOnLessMut(m, s) == s + 1
StartOnLess(m, s) == m + 1

\* Faulty variant: the last position is left out of the search.
SearchLimitMut(n) == n - 1
SearchLimit(n) == n

\* Rows of the decision table whose condition holds.
Rows(mid_rank, pre_mid_rank, r) ==
    {x \in {"found", "left_strict", "left", "right"} :
        \/ x = "found" /\ Found(mid_rank, pre_mid_rank, r)
        \/ x = "left_strict" /\ LeftStrict(pre_mid_rank, r)
        \/ x = "left" /\ Left(pre_mid_rank, r)
        \/ x = "right" /\ Right(mid_rank, r)}

Panic(why) ==
    /\ pc' = "panicked"
    /\ fault' = why

InitCommon ==
    /\ build \in Builds
    /\ max_rank = 0 /\ index = 0 /\ rank = 0
    /\ mid = 0 /\ terms = <<>> /\ taken = {} /\ assert_ok = TRUE
    /\ iters = 0 /\ queries = 0
    /\ result = None /\ prev = <<>> /\ fault = "" /\ wrapped = FALSE
    /\ oob = FALSE

InitNoCode ==
    /\ code = "none" /\ vec = <<>> /\ dv = <<>> /\ vec2 = <<>> /\ pos = 0
    /\ same = FALSE

Init ==
    /\ InitCommon
    /\ InitNoCode
    /\ pc = "new"
    /\ start = 0 /\ limit = 0
    /\ rk \in ValidViews \cup BrokenViews

\* BinSearchSelect::new
New ==
    /\ pc = "new"
    /\ UNCHANGED <<build, rk, index, rank, start, limit, mid, terms, taken,
                   assert_ok, iters, queries, result, prev>>
    /\ UNCHANGED codeVars
    /\ IF Overflows(bit_len - 1) /\ build = "debug"
       THEN /\ Panic("overflow")
            /\ UNCHANGED <<max_rank, wrapped, oob>>
       ELSE LET max_index == Wrap(bit_len - 1) IN
            /\ wrapped' = Overflows(bit_len - 1)
            /\ oob' = (max_index >= bit_len)
            /\ \E r \in RankOutcomes(max_index) :
                 IF r = Trap
                 THEN Panic("index") /\ UNCHANGED max_rank
                 ELSE /\ max_rank' = r[1]
                      /\ pc' = "ready"
                      /\ fault' = fault

\* Select::select, up to the loop (the locals of an earlier call are gone)
Select ==
    /\ pc \in {"ready", "returned"}
    /\ \E k \in 0..MaxU :
        /\ index' = k
        /\ prev' = IF pc = "returned" THEN <<index, result>> ELSE prev
        /\ iters' = 0
        /\ queries' = 0
        /\ taken' = {}
        /\ assert_ok' = TRUE
        /\ mid' = 0
        /\ terms' = <<>>
        /\ start' = 0
        /\ result' = None
        /\ UNCHANGED <<build, rk, max_rank, oob>>
        /\ UNCHANGED codeVars
        /\ IF Overflows(k + 1) /\ build = "debug"
           THEN /\ Panic("overflow")
                /\ rank' = 0
                /\ limit' = 0
                /\ wrapped' = FALSE
           ELSE /\ rank' = Wrap(k + 1)
                /\ wrapped' = Overflows(k + 1)
                /\ fault' = fault
                /\ IF rank' > max_rank
                   THEN /\ pc' = "returned"
                        /\ limit' = 0
                   ELSE /\ pc' = "loop"
                        /\ limit' = SearchLimit(bit_len)

\* One iteration of select's loop
Iterate ==
    /\ pc = "loop"
    /\ start < limit
    /\ iters < MaxIters
    /\ iters' = iters + 1
    /\ UNCHANGED <<build, rk, max_rank, index, rank, prev>>
    /\ UNCHANGED codeVars
    /\ LET t == MidTerms(start, limit)
           m == Mid(start, limit)
           over == \E i \in 1..Len(t) : Overflows(t[i])
       IN
       /\ terms' = t
       /\ mid' = m
       /\ assert_ok' = (start <= m /\ m < limit)
       /\ IF over /\ build = "debug"
          THEN /\ Panic("overflow")
               /\ UNCHANGED <<start, limit, taken, queries, result, wrapped, oob>>
          ELSE IF build = "debug" /\ ~(start <= m /\ m < limit)
          THEN /\ Panic("assert")
               /\ UNCHANGED <<start, limit, taken, queries, result, wrapped, oob>>
          ELSE
            \E q1 \in RankOutcomes(m) :
            \E q2 \in (IF m = 0 THEN {<<0>>} ELSE RankOutcomes(m - 1)) :
              /\ oob' = (oob \/ m >= bit_len)
              /\ queries' = queries + (IF m = 0 THEN 1 ELSE 2)
              /\ IF q1 = Trap \/ q2 = Trap
                 THEN /\ Panic("index")
                      /\ UNCHANGED <<start, limit, taken, result, wrapped>>
                 ELSE LET mid_rank == q1[1]
                          pre_mid_rank == q2[1]
                      IN
                      IF mid_rank = rank /\ Overflows(rank - 1) /\ build = "debug"
                 THEN /\ Panic("overflow")
                      /\ UNCHANGED <<start, limit, taken, result, wrapped>>
                 ELSE
                   /\ taken' = Rows(mid_rank, pre_mid_rank, rank)
                   /\ IF Found(mid_rank, pre_mid_rank, rank)
                      THEN /\ pc' = "returned"
                           /\ result' = Some(m)
                           /\ fault' = fault
                           /\ wrapped' = (wrapped \/ over)
                           /\ UNCHANGED <<start, limit>>
                      ELSE IF LeftStrict(pre_mid_rank, rank)
                      THEN IF Overflows(m - 1) /\ build = "debug"
                           THEN /\ Panic("overflow")
                                /\ UNCHANGED <<start, limit, result, wrapped>>
                           ELSE /\ limit' = Wrap(m - 1)
                                /\ wrapped' = (wrapped \/ over \/ Overflows(m - 1))
                                /\ pc' = pc
                                /\ fault' = fault
                                /\ UNCHANGED <<start, result>>
                      ELSE IF Left(pre_mid_rank, rank)
                      THEN /\ limit' = LimitOnEqual(m)
                           /\ wrapped' = (wrapped \/ over)
                           /\ pc' = pc
                           /\ fault' = fault
                           /\ UNCHANGED <<start, result>>
                      ELSE IF Right(mid_rank, rank)
                      THEN IF Overflows(StartOnLess(m, start)) /\ build = "debug"
                           THEN /\ Panic("overflow")
                                /\ UNCHANGED <<start, limit, result, wrapped>>
                           ELSE /\ start' = Wrap(StartOnLess(m, start))
                                /\ wrapped' = (wrapped \/ over
                                               \/ Overflows(StartOnLess(m, start)))
                                /\ pc' = pc
                                /\ fault' = fault
                                /\ UNCHANGED <<limit, result>>
                      ELSE /\ wrapped' = (wrapped \/ over)
                           /\ pc' = pc
                           /\ fault' = fault
                           /\ UNCHANGED <<start, limit, result>>

\* The loop ends without a return: select panics
Exhausted ==
    /\ pc = "loop"
    /\ ~(start < limit)
    /\ Panic("broken")
    /\ UNCHANGED <<build, wrapped>>
    /\ UNCHANGED selVars
    /\ UNCHANGED codeVars

Next == New \/ Select \/ Iterate \/ Exhausted

Spec == Init /\ [][Next]_vars

\* ------------------------------------------------- the midpoint alone
\* select's midpoint and its debug_assert! on any start < limit of the index
\* type.
InitMid ==
    /\ InitCommon
    /\ InitNoCode
    /\ pc = "mid"
    /\ rk = <<>>
    /\ start \in 0..MaxU
    /\ limit \in 0..MaxU

ComputeMid ==
    /\ pc = "mid"
    /\ start < limit
    /\ LET t == MidTerms(start, limit)
           m == Mid(start, limit)
           over == \E i \in 1..Len(t) : Overflows(t[i])
       IN
       /\ terms' = t
       /\ mid' = m
       /\ assert_ok' = (start <= m /\ m < limit)
       /\ wrapped' = (over /\ build = "release")
       /\ IF over /\ build = "debug"
          THEN Panic("overflow")
          ELSE IF build = "debug" /\ ~(start <= m /\ m < limit)
          THEN Panic("assert")
          ELSE pc' = "mid_done" /\ fault' = fault
    /\ UNCHANGED <<build, rk, max_rank, index, rank, start, limit, taken,
                   iters, queries, result, prev, oob>>
    /\ UNCHANGED codeVars

NextMid == ComputeMid

SpecMid == InitMid /\ [][NextMid]_vars

\* ------------------------------------------------------ universal codes
\* The codes the harness is instantiated with: a self-delimiting bit pattern
\* for every strictly positive integer.
Codes == {"Unary", "Gamma"}

Zeros(n) == [i \in 1..n |-> FALSE]

\* The binary digits of v, most significant first, n of them.
RECURSIVE Binary(_, _)
Binary(v, n) ==
    IF n = 0 THEN <<>> ELSE Append(Binary(v \div 2, n - 1), (v % 2) = 1)

RECURSIVE BinaryValue(_)
BinaryValue(bs) ==
    IF bs = <<>> THEN 0
    ELSE 2 * BinaryValue(SubSeq(bs, 1, Len(bs) - 1))
         + (IF bs[Len(bs)] THEN 1 ELSE 0)

\* Code::encode's bit pattern of v >= 1.
CodeWord(c, v) ==
    IF c = "Unary"
    THEN Append(Zeros(v - 1), TRUE)
    ELSE Zeros(Log2Floor(v)) \o Binary(v, Log2Floor(v) + 1)

\* Number of FALSE bits at the head of q.
RECURSIVE LeadingZeros(_)
LeadingZeros(q) ==
    IF q = <<>> \/ q[1] THEN 0 ELSE 1 + LeadingZeros(Tail(q))

\* Code::decode on the queue q: <<value, rest of the queue>>, or <<>> when
\* the queue ends before a whole code is read.
Decode(c, q) ==
    LET z == LeadingZeros(q)
        need == IF c = "Unary" THEN z + 1 ELSE 2 * z + 1
    IN  IF Len(q) < need THEN <<>>
        ELSE <<IF c = "Unary" THEN z + 1
                 ELSE BinaryValue(SubSeq(q, z + 1, need)),
               SubSeq(q, need + 1, Len(q))>>

InitCode ==
    /\ InitCommon
    /\ pc = "encode"
    /\ rk = <<>>
    /\ start = 0 /\ limit = 0
    /\ code \in Codes
    /\ vec \in UNION {[1..n -> 0..MaxU] : n \in 0..MaxVecLen}
    /\ dv = <<>> /\ vec2 = <<>> /\ pos = 0 /\ same = FALSE

\* code_decode: one turn of `for &i in &vec`, or the loop's end
EncodeNext ==
    /\ pc = "encode"
    /\ UNCHANGED <<build, code, vec, vec2, same>>
    /\ UNCHANGED selVars
    /\ IF pos = Len(vec)
       THEN /\ pc' = "decode"
            /\ UNCHANGED <<dv, pos, fault, wrapped>>
       ELSE LET i == vec[pos + 1] IN
            IF Overflows(i + 1) /\ build = "debug"
            THEN /\ Panic("overflow")
                 /\ UNCHANGED <<dv, pos, wrapped>>
            ELSE IF Wrap(i + 1) = 0
            THEN /\ Panic("unwrap")
                 /\ wrapped' = TRUE
                 /\ UNCHANGED <<dv, pos>>
            ELSE /\ dv' = dv \o CodeWord(code, Wrap(i + 1))
                 /\ pos' = pos + 1
                 /\ UNCHANGED <<pc, fault, wrapped>>

\* code_decode: one turn of `while let Ok(Some(i))`, or its end and the
\* comparison
DecodeNext ==
    /\ pc = "decode"
    /\ UNCHANGED <<build, code, vec, pos>>
    /\ UNCHANGED selVars
    /\ LET d == Decode(code, dv) IN
       IF d = <<>>
       THEN /\ same' = (vec2 = vec)
            /\ pc' = "done"
            /\ UNCHANGED <<dv, vec2, fault, wrapped>>
       ELSE IF Overflows(d[1] - 1) /\ build = "debug"
       THEN /\ Panic("overflow")
            /\ dv' = d[2]
            /\ UNCHANGED <<vec2, same, wrapped>>
       ELSE /\ vec2' = Append(vec2, Wrap(d[1] - 1))
            /\ dv' = d[2]
            /\ wrapped' = (wrapped \/ Overflows(d[1] - 1))
            /\ UNCHANGED <<pc, same, fault>>

NextCode == EncodeNext \/ DecodeNext

SpecCode == InitCode /\ [][NextCode]_vars

\* ------------------------------------------------- the Rank contract
\* rank is non-decreasing and grows by at most 1 per position.
ValidRank(r) ==
    \A i \in 1..Len(r) : (r[i] - (IF i = 1 THEN 0 ELSE r[i - 1])) \in {0, 1}

Valid == ValidRank(rk)

\* rank(i) and the bit at position i of a contract-honouring view.
RankAt(i) == rk[i + 1]
BitAt(i) == RankAt(i) - (IF i = 0 THEN 0 ELSE RankAt(i - 1))

\* Position p holds the (k+1)-th set bit.
IsKthSetBit(p, k) ==
    /\ BitAt(p) = 1
    /\ Cardinality({j \in 0..(p - 1) : BitAt(j) = 1}) = k

\* A select call is running or has ended.
InSelect == pc \in {"loop", "returned", "panicked"}

\* ---------------------------------------------------------------- claims

\* C1: Rank/Select duality. On a bit store of bit_len >= 1 with a
\* contract-honouring rank, select(k) for k < max_rank does not panic, and
\* what it returns is Some(p) with rank(p) = k+1 and (p = 0 or rank(p-1) = k):
\* p is the position of the (k+1)-th set bit.
C1_RankSelectDuality ==
    (Valid /\ bit_len >= 1 /\ InSelect /\ index < max_rank) =>
        /\ pc # "panicked"
        /\ pc = "returned" =>
             \E p \in 0..(bit_len - 1) :
                /\ result = Some(p)
                /\ RankAt(p) = index + 1
                /\ (p = 0 \/ RankAt(p - 1) = index)
                /\ IsKthSetBit(p, index)

C1_Witness ==
    /\ Valid /\ bit_len = MaxBits /\ pc = "returned"
    /\ index = 2 /\ max_rank > 3 /\ result = Some(5) /\ iters >= 2

\* C2: Select boundary. On a bit store of bit_len >= 1 with a
\* contract-honouring rank, select(k) returns None for every k >= max_rank.
C2_SelectBoundary ==
    (Valid /\ bit_len >= 1 /\ InSelect /\ index >= max_rank) =>
        (pc = "returned" /\ result = None)

\* C3: Construction over an empty Rank view is guarded: new() neither
\* underflows bit_len - 1 nor queries rank out of range, max_rank is 0 and
\* every select returns None.
C3_EmptyGuarded ==
    (bit_len = 0 /\ pc # "new") =>
        /\ pc \in {"ready", "returned"}
        /\ fault = ""
        /\ ~oob
        /\ (pc = "ready" => ~wrapped)
        /\ max_rank = 0
        /\ (pc = "returned" => result = None)

\* C4: Whatever rank function the wrapped view supplies, select(k) with
\* k+1 <= max_rank never goes through a loop iteration that leaves both
\* start and limit unchanged and stays in the loop.
C4_NoIdleIteration ==
    [][(pc = "loop" /\ pc' = "loop" /\ rank <= max_rank)
          => (start' # start \/ limit' # limit)]_vars

\* C5: For every k >= population count, k = 2^W - 1 included, select(k)
\* returns None as a normal result, and k + 1 neither overflows nor wraps.
C5_FullRangeNone ==
    (Valid /\ bit_len >= 1 /\ InSelect /\ index >= max_rank) =>
        /\ pc = "returned"
        /\ result = None
        /\ fault = ""
        /\ ~wrapped
        /\ rank = index + 1

\* C6: Select monotonicity. On a contract-honouring view, two queries
\* k1 < k2 < max_rank both return positions and select(k1) < select(k2).
C6_SelectMonotone ==
    (Valid /\ bit_len >= 1 /\ pc \in {"returned", "panicked"} /\ prev # <<>>
       /\ index < max_rank /\ prev[1] < max_rank) =>
        /\ pc = "returned"
        /\ result # None
        /\ prev[2] # None
        /\ (prev[1] < index => prev[2][1] < result[1])
        /\ (index < prev[1] => result[1] < prev[2][1])

C6_Witness ==
    /\ Valid /\ pc = "returned" /\ prev # <<>>
    /\ prev[1] < index /\ index < max_rank
    /\ prev[2] # None /\ result # None
    /\ prev[2][1] + 2 < result[1]

\* C9: With a contract-honouring rank and k+1 <= max_rank the search never
\* fails internally: while the loop runs the position where rank first
\* reaches k+1 lies in [start, limit); in every iteration exactly one row of
\* the decision table applies and start <= mid < limit; nothing overflows
\* or underflows and no panic is reached.
C9_SearchInvariant ==
    (Valid /\ bit_len >= 1 /\ InSelect /\ index < max_rank) =>
        /\ fault = ""
        /\ pc # "panicked"
        /\ ~wrapped
        /\ assert_ok
        /\ (iters > 0 => Cardinality(taken) = 1)
        /\ (pc = "loop" =>
              \E p \in start..(limit - 1) : IsKthSetBit(p, index))

C9_Witness ==
    /\ Valid /\ pc = "loop" /\ index < max_rank /\ iters >= 2
    /\ taken = {"right"} /\ limit < bit_len /\ start > 0

\* C10: Logarithmic search. With a contract-honouring rank every iteration
\* that stays in the loop at least halves limit - start; a select call makes
\* at most floor(log2(bit_len)) + 1 iterations and at most 2 rank queries in
\* each.
C10_Logarithmic ==
    /\ []((Valid /\ bit_len >= 1 /\ InSelect) =>
            /\ iters <= Log2Floor(bit_len) + 1
            /\ queries <= 2 * iters)
    /\ [][(Valid /\ pc = "loop" /\ pc' = "loop")
            => (limit' - start' <= (limit - start) \div 2)]_vars

C10_Witness ==
    /\ Valid /\ bit_len = MaxBits /\ pc = "returned"
    /\ iters = Log2Floor(bit_len) + 1 /\ queries = 2 * iters

\* C7: The round trip of code_decode. For every vector of values, encoding
\* each v + 1 into one empty bit queue and decoding until decode yields no
\* value reproduces the vector, in order, and leaves the queue empty.
C7_RoundTrip ==
    (pc \in {"done", "panicked"}) =>
        /\ pc = "done"
        /\ same
        /\ vec2 = vec
        /\ dv = <<>>

\* C8: Overflow-safe midpoint. For all start < limit of the index type,
\* mid = floor((start + limit) / 2), no operation of its computation leaves
\* 0 .. 2^W - 1, and start <= mid < limit.
C8_MidpointSafe ==
    (pc \in {"mid_done", "panicked"}) =>
        /\ pc = "mid_done"
        /\ fault = ""
        /\ ~wrapped
        /\ \A i \in 1..Len(terms) : ~Overflows(terms[i])
        /\ mid = (start + limit) \div 2
        /\ start <= mid /\ mid < limit
        /\ assert_ok

C8_Witness ==
    /\ pc = "mid_done" /\ start = MaxU - 2 /\ limit = MaxU /\ mid = MaxU - 1

====
